---- MODULE Spec2Model ----
(***************************************************************************)
(* A model of bot.py: the configuration read at import, main(), and the    *)
(* three handlers start, handle_text and handle_voice with the helper      *)
(* process_with_gpt.  A handler is split at its awaits on the chat         *)
(* transport (get_file, the download, reply_text); the two backend calls   *)
(* go through the synchronous OpenAI client, so they run inside one step   *)
(* of the event loop.                                                      *)
(***************************************************************************)
EXTENDS Integers, Sequences, FiniteSets, TLC

\* ---------------------------------------------------------------- bounds
NumMsgs == 2        \* inbound updates in one run
NumPaths == 2       \* names tempfile can hand out

MaxRawLen == 3      \* length of the AUTHORIZED_CHAT_ID values tried at startup

Msgs == 1..NumMsgs
Paths == 1..NumPaths

\* ------------------------------------------------------- strings as lists
\* A Python str is a sequence of one-character strings.
Whitespace == {" ", "\n"}
Digits == {"0", "1", "2", "3", "4", "5", "6", "7", "8", "9"}

\* str.lower() on the characters the inputs use
LowerChar(c) ==
    CASE c = "H" -> "h"
      [] c = "E" -> "e"
      [] c = "L" -> "l"
      [] c = "P" -> "p"
      [] c = "W" -> "w"
      [] c = "R" -> "r"
      [] c = "I" -> "i"
      [] c = "T" -> "t"
      [] c = "C" -> "c"
      [] c = "O" -> "o"
      [] c = "D" -> "d"
      [] c = "M" -> "m"
      [] OTHER -> c

Lower(s) == [i \in 1..Len(s) |-> LowerChar(s[i])]

RECURSIVE LStrip(_)
LStrip(s) ==
    IF s # <<>> /\ Head(s) \in Whitespace THEN LStrip(Tail(s)) ELSE s

RECURSIVE RStrip(_)
RStrip(s) ==
    IF s # <<>> /\ s[Len(s)] \in Whitespace
    THEN RStrip(SubSeq(s, 1, Len(s) - 1))
    ELSE s

\* str.strip()
Strip(s) == RStrip(LStrip(s))

\* str.isdigit(): non-empty and every character a digit
IsDigit(s) == s # <<>> /\ \A i \in 1..Len(s) : s[i] \in Digits

DigitVal(c) ==
    CASE c = "0" -> 0 [] c = "1" -> 1 [] c = "2" -> 2 [] c = "3" -> 3
      [] c = "4" -> 4 [] c = "5" -> 5 [] c = "6" -> 6 [] c = "7" -> 7
      [] c = "8" -> 8 [] c = "9" -> 9

RECURSIVE DecVal(_)
DecVal(s) ==
    IF s = <<>> THEN 0
    ELSE 10 * DecVal(SubSeq(s, 1, Len(s) - 1)) + DigitVal(s[Len(s)])

\* int(x) on a string that passed x.strip().isdigit(): int ignores the
\* surrounding whitespace
ToInt(s) == DecVal(Strip(s))

\* str.split(","): the pieces between the commas, "" gives [""]
RECURSIVE SplitAcc(_, _, _)
SplitAcc(s, cur, acc) ==
    IF s = <<>> THEN Append(acc, cur)
    ELSE IF Head(s) = ","
         THEN SplitAcc(Tail(s), <<>>, Append(acc, cur))
         ELSE SplitAcc(Tail(s), Append(cur, Head(s)), acc)

Split(s) == SplitAcc(s, <<>>, <<>>)

RECURSIVE ParseIdsFrom(_)
ParseIdsFrom(parts) ==
    IF parts = <<>> THEN <<>>
    ELSE IF IsDigit(Strip(Head(parts)))
         THEN <<ToInt(Head(parts))>> \o ParseIdsFrom(Tail(parts))
         ELSE ParseIdsFrom(Tail(parts))

\* a parse that gives up on the whole list when one entry is not numeric
ParseIds_strict(raw) ==
    IF \A i \in 1..Len(Split(raw)) : IsDigit(Strip(Split(raw)[i]))
    THEN ParseIdsFrom(Split(raw))
    ELSE <<>>

\* [int(x) for x in raw_ids.split(",") if x.strip().isdigit()]
ParseIds(raw) == ParseIdsFrom(Split(raw))

\* ------------------------------------------------------------- the inputs
\* values of the AUTHORIZED_CHAT_ID environment variable ("" when unset)
RawIdConfigs ==
    { <<>>,
      <<"a", "b", "c">>,
      <<"4", "2">>,
      <<"4", "2", ",", "x", "7">> }

\* every value of AUTHORIZED_CHAT_ID of at most MaxRawLen characters over
\* digits, the comma, a blank and a letter
RawAlphabet == {"4", "2", ",", " ", "x"}
RawStrings == UNION { [1..n -> RawAlphabet] : n \in 0..MaxRawLen }

\* values of BOT_TOKEN and OPENAI_API_KEY; "" also stands for the None of an
\* unset variable, which all() treats the same way
Credentials == {"", "secret"}

ChatIds == {42, 7}

\* message texts
Texts ==
    { <<"h", "e", "l", "p">>,
      <<" ", "H", "e", "l", "p", "\n">>,
      <<"W", "R", "I", "T", "E">>,
      <<"R", "e", "c", "o", "r", "d", " ">>,
      <<"h", "e", "l", "p", " ", "m", "e">>,
      <<" ", "H", "i">> }

\* texts the rewrite backend may return
BackendTexts == {"generated text"}

\* ------------------------------------------------------ the fixed strings
Rejection == "You are not authorised to use this bot."
Greeting == "Hi! Please choose an option below:"
HelpReply == "What do you need help with?"
WriteReply == "Please type what you'd like me to help you write."
RecordReply == "Please send a voice message."
TranscribeError == "Error while transcribing or processing the voice message."
ProcessError == "Error while processing your message."
NoneReply == "<None>"

RewritingPrompt == "You are a professional rewriting assistant. ..."
HelpfulPrompt == "You are a helpful assistant."

KwHelp == <<"h", "e", "l", "p">>
KwWrite == <<"w", "r", "i", "t", "e">>
KwRecord == <<"r", "e", "c", "o", "r", "d">>

\* ------------------------------------------------------------------ state
VARIABLES
    BOT_TOKEN,            \* module global, line 21
    OPENAI_API_KEY,       \* module global, line 22
    raw_ids,              \* module global, line 23
    AUTHORIZED_CHAT_IDS,  \* module global, line 24: a list of integers
    app,                  \* "loaded", "polling" or "exited"
    handlers,             \* the handlers main registered
    loopBusy,             \* the message whose handler holds the event loop in
                          \* a backend call that does not return; 0 if none
    fs,                   \* the temporary directory: name -> file
    pc,                   \* per message: where its handler is
    kind,                 \* per message: "start", "text" or "voice"
    chat_id,              \* per message: update.effective_chat.id
    text,                 \* per message: update.message.text
    tmp,                  \* per message: tmp.name, 0 before the file exists
    audio_path,           \* per message: audio_path, 0 before it is assigned
    calls,                \* per message: the backend calls made, in order
    removes,              \* per message: the os.remove calls made, in order
    attempts,             \* per message: the texts passed to reply_text
    delivered,            \* per message: the texts the caller received
    faults,               \* per message: transport operations that failed
    escaped               \* per message: what raised out of the handler

config == <<BOT_TOKEN, OPENAI_API_KEY, raw_ids, AUTHORIZED_CHAT_IDS>>
update == <<kind, chat_id, text>>
vars == <<BOT_TOKEN, OPENAI_API_KEY, raw_ids, AUTHORIZED_CHAT_IDS, app,
          handlers, loopBusy, fs, pc, kind, chat_id, text, tmp, audio_path,
          calls, removes, attempts, delivered, faults, escaped>>

Absent == [exists |-> FALSE, owner |-> 0, data |-> ""]

\* the bytes of message m's voice attachment
AudioOf(m) == ToString(m)

\* transcript.text for the audio the backend was given
Transcript(data) == <<"said", data>>

Last(s) == s[Len(s)]

Init ==
    /\ BOT_TOKEN \in Credentials
    /\ OPENAI_API_KEY \in Credentials
    /\ raw_ids \in RawIdConfigs
    /\ AUTHORIZED_CHAT_IDS = ParseIds(raw_ids)
    /\ app = "loaded"
    /\ handlers = {}
    /\ loopBusy = 0
    /\ fs = [p \in Paths |-> Absent]
    /\ pc = [m \in Msgs |-> "idle"]
    /\ kind = [m \in Msgs |-> "none"]
    /\ chat_id = [m \in Msgs |-> 0]
    /\ text = [m \in Msgs |-> <<>>]
    /\ tmp = [m \in Msgs |-> 0]
    /\ audio_path = [m \in Msgs |-> 0]
    /\ calls = [m \in Msgs |-> <<>>]
    /\ removes = [m \in Msgs |-> <<>>]
    /\ attempts = [m \in Msgs |-> <<>>]
    /\ delivered = [m \in Msgs |-> <<>>]
    /\ faults = [m \in Msgs |-> {}]
    /\ escaped = [m \in Msgs |-> "none"]

\* ------------------------------------------------------------------- main
\* truth value of a str (or None) and of a list, as all() takes them
TruthyStr(x) == x # ""
\* a test that takes every list for true
TruthyList_any(x) == TRUE

TruthyList(x) == Len(x) > 0

main ==
    /\ app = "loaded"
    /\ IF ~(TruthyStr(BOT_TOKEN) /\ TruthyStr(OPENAI_API_KEY)
             /\ TruthyList(AUTHORIZED_CHAT_IDS))
       THEN /\ app' = "exited"
            /\ UNCHANGED handlers
       ELSE /\ handlers' = {"start", "handle_text", "handle_voice"}
            /\ app' = "polling"
    /\ UNCHANGED <<config, update, loopBusy, fs, pc, tmp, audio_path, calls,
                   removes, attempts, delivered, faults, escaped>>

\* ---------------------------------------------------------- authorization
\* a gate that lets every caller through
is_authorized_open(c) == TRUE

is_authorized(c) ==
    \E i \in 1..Len(AUTHORIZED_CHAT_IDS) : AUTHORIZED_CHAT_IDS[i] = c

\* An update reaches the handler main registered for its class; updates are
\* numbered in the order they are dispatched.
Dispatched(m, h) ==
    /\ app = "polling"
    /\ h \in handlers
    /\ loopBusy = 0
    /\ pc[m] = "idle"
    /\ \A n \in Msgs : n < m => pc[n] # "idle"

\* the handler of m resumes from an await
Resumes(m, at) ==
    /\ loopBusy = 0
    /\ pc[m] = at

\* ---------------------------------------------------------------- replies
\* update.message.reply_text(t) is awaited: the handler of m stops at `at`
\* until the transport answers.
reply_text(m, t, at) ==
    /\ attempts' = [attempts EXCEPT ![m] = Append(@, t)]
    /\ pc' = [pc EXCEPT ![m] = at]

\* ------------------------------------------------------------------ start
start(m) ==
    /\ Dispatched(m, "start")
    /\ \E c \in ChatIds :
        /\ kind' = [kind EXCEPT ![m] = "start"]
        /\ chat_id' = [chat_id EXCEPT ![m] = c]
        /\ IF ~is_authorized(c)
           THEN reply_text(m, Rejection, "reply_final")
           ELSE reply_text(m, Greeting, "reply_final")
    /\ UNCHANGED <<config, app, handlers, loopBusy, fs, text, tmp,
                   audio_path, calls, removes, delivered, faults, escaped>>

\* ------------------------------------------------------- process_with_gpt
\* how client.chat.completions.create can end: a response with text, an
\* exception, a response with no choices, a response whose message has no
\* content, or no return at all
RewriteOutcomes == {"ok", "raise", "no_choices", "no_content", "hang"}

\* a default that is the generic prompt
DefaultPrompt_generic == HelpfulPrompt

\* the default of the system_prompt parameter
DefaultPrompt == RewritingPrompt

\* the value of `reply` after the try/except of process_with_gpt
ReplyOf(o, b) ==
    CASE o = "ok" -> b
      [] o = "raise" -> ProcessError
      [] o = "no_choices" -> ProcessError
      [] o = "no_content" -> NoneReply

ChatCall(system_prompt, user_content, o, b) ==
    [api |-> "chat.completions", system |-> system_prompt,
     user |-> user_content, outcome |-> o,
     returned |-> IF o = "ok" THEN b ELSE ""]

\* a process_with_gpt that calls the backend a second time when the first
\* call raises
process_with_gpt_retry(m, user_content, system_prompt, made, at) ==
    \E o \in RewriteOutcomes, b \in BackendTexts :
        /\ calls' = [calls EXCEPT
                       ![m] = IF o = "raise"
                              THEN made \o <<ChatCall(system_prompt, user_content, o, b),
                                             ChatCall(system_prompt, user_content, o, b)>>
                              ELSE Append(made, ChatCall(system_prompt, user_content, o, b))]
        /\ IF o = "hang"
           THEN /\ loopBusy' = m
                /\ pc' = [pc EXCEPT ![m] = "hung"]
                /\ UNCHANGED attempts
           ELSE /\ attempts' = [attempts EXCEPT ![m] = Append(@, ReplyOf(o, b))]
                /\ pc' = [pc EXCEPT ![m] = at]
                /\ UNCHANGED loopBusy

\* process_with_gpt(update, user_content, system_prompt) called by the
\* handler of m, which has made the backend calls `made` in this step; the
\* handler waits at `at` for the reply to be sent
process_with_gpt(m, user_content, system_prompt, made, at) ==
    \E o \in RewriteOutcomes, b \in BackendTexts :
        /\ calls' = [calls EXCEPT
                       ![m] = Append(made, ChatCall(system_prompt, user_content, o, b))]
        /\ IF o = "hang"
           THEN /\ loopBusy' = m
                /\ pc' = [pc EXCEPT ![m] = "hung"]
                /\ UNCHANGED attempts
           ELSE /\ reply_text(m, ReplyOf(o, b), at)
                /\ UNCHANGED loopBusy

\* ------------------------------------------------------------ handle_text
\* a normalisation that forgets to lowercase
Normalize_nolower(t) == Strip(t)

\* a normalisation that forgets to trim
Normalize_nostrip(t) == Lower(t)

\* update.message.text.strip().lower()
Normalize(t) == Lower(Strip(t))

handle_text(m) ==
    /\ Dispatched(m, "handle_text")
    /\ \E c \in ChatIds, t \in Texts :
        /\ kind' = [kind EXCEPT ![m] = "text"]
        /\ chat_id' = [chat_id EXCEPT ![m] = c]
        /\ text' = [text EXCEPT ![m] = t]
        /\ IF ~is_authorized(c)
           THEN /\ reply_text(m, Rejection, "reply_final")
                /\ UNCHANGED <<calls, loopBusy>>
           ELSE IF Normalize(t) = KwHelp
           THEN /\ reply_text(m, HelpReply, "reply_final")
                /\ UNCHANGED <<calls, loopBusy>>
           ELSE IF Normalize(t) = KwWrite
           THEN /\ reply_text(m, WriteReply, "reply_final")
                /\ UNCHANGED <<calls, loopBusy>>
           ELSE IF Normalize(t) = KwRecord
           THEN /\ reply_text(m, RecordReply, "reply_final")
                /\ UNCHANGED <<calls, loopBusy>>
           ELSE process_with_gpt(m, Normalize(t), DefaultPrompt, calls[m],
                                 "reply_final")
    /\ UNCHANGED <<config, app, handlers, fs, tmp, audio_path, removes,
                   delivered, faults, escaped>>

\* ----------------------------------------------------------- handle_voice
\* how client.audio.transcriptions.create can end
TranscribeOutcomes == {"ok", "raise", "hang"}

\* a handle_voice that leaves system_prompt to its default
VoicePrompt_default == RewritingPrompt

\* the system_prompt handle_voice passes
VoicePrompt == HelpfulPrompt

\* an except block that answers with the message of process_with_gpt
ExceptReply_processing == ProcessError

\* the text the except block of handle_voice sends
ExceptReply == TranscribeError

TranscribeCall(data, t) ==
    [api |-> "audio.transcriptions", system |-> "", user |-> <<data>>,
     outcome |-> t, returned |-> ""]

\* an os.remove that is not made where it stands
Unlink_keep(d, p) == d

\* os.remove(p) on the directory d: what the call does to d, and its record
Unlink(d, p) == [d EXCEPT ![p] = Absent]
Removed(d, p) ==
    [path |-> p,
     result |-> IF d[p].exists THEN "ok" ELSE "FileNotFoundError",
     owner |-> d[p].owner]

\* a handle_voice that resolves the attachment without asking is_authorized
handle_voice_nocheck(m) ==
    /\ Dispatched(m, "handle_voice")
    /\ \E c \in ChatIds :
        /\ kind' = [kind EXCEPT ![m] = "voice"]
        /\ chat_id' = [chat_id EXCEPT ![m] = c]
        /\ pc' = [pc EXCEPT ![m] = "get_file"]
        /\ UNCHANGED attempts
    /\ UNCHANGED <<config, app, handlers, loopBusy, fs, text, tmp,
                   audio_path, calls, removes, delivered, faults, escaped>>

\* lines 75-82: up to the await of get_file
handle_voice(m) ==
    /\ Dispatched(m, "handle_voice")
    /\ \E c \in ChatIds :
        /\ kind' = [kind EXCEPT ![m] = "voice"]
        /\ chat_id' = [chat_id EXCEPT ![m] = c]
        /\ IF ~is_authorized(c)
           THEN reply_text(m, Rejection, "reply_final")
           ELSE /\ pc' = [pc EXCEPT ![m] = "get_file"]
                /\ UNCHANGED attempts
    /\ UNCHANGED <<config, app, handlers, loopBusy, fs, text, tmp,
                   audio_path, calls, removes, delivered, faults, escaped>>

\* lines 82-85: get_file answers; on success the temporary file is created
\* under a name no existing file has, and the download is awaited
get_file_return(m) ==
    /\ Resumes(m, "get_file")
    /\ \E ok \in BOOLEAN :
        IF ~ok
        THEN /\ faults' = [faults EXCEPT ![m] = @ \cup {"get_file"}]
             /\ escaped' = [escaped EXCEPT ![m] = "get_file"]
             /\ pc' = [pc EXCEPT ![m] = "raised"]
             /\ UNCHANGED <<fs, tmp>>
        ELSE /\ \E p \in Paths :
                 /\ ~fs[p].exists
                 /\ fs' = [fs EXCEPT ![p] = [exists |-> TRUE, owner |-> m, data |-> ""]]
                 /\ tmp' = [tmp EXCEPT ![m] = p]
             /\ pc' = [pc EXCEPT ![m] = "download"]
             /\ UNCHANGED <<faults, escaped>>
    /\ UNCHANGED <<config, app, handlers, loopBusy, update, audio_path,
                   calls, removes, attempts, delivered>>

\* lines 85-102: the download answers.  On failure the with block closes the
\* file (delete=False keeps it) and the exception leaves the handler.  On
\* success the bytes are written, audio_path is set and the try block runs
\* up to its first await: open, transcribe, os.remove, process_with_gpt, or
\* the except block's os.remove and reply.
download_return(m) ==
    /\ Resumes(m, "download")
    /\ \E ok \in BOOLEAN :
        IF ~ok
        THEN /\ faults' = [faults EXCEPT ![m] = @ \cup {"download"}]
             /\ escaped' = [escaped EXCEPT ![m] = "download"]
             /\ pc' = [pc EXCEPT ![m] = "raised"]
             /\ UNCHANGED <<fs, audio_path, calls, removes, attempts, loopBusy>>
        ELSE LET p == tmp[m]
                 \* tmp.write reaches the file this handler created
                 d == IF fs[p].exists /\ fs[p].owner = m
                      THEN [fs EXCEPT ![p].data = AudioOf(m)]
                      ELSE fs
             IN
             /\ audio_path' = [audio_path EXCEPT ![m] = p]
             /\ UNCHANGED faults
             /\ IF ~d[p].exists
                THEN \* open raises; the except block's os.remove raises too
                     /\ removes' = [removes EXCEPT ![m] = Append(@, Removed(d, p))]
                     /\ escaped' = [escaped EXCEPT ![m] = "os.remove"]
                     /\ pc' = [pc EXCEPT ![m] = "raised"]
                     /\ fs' = d
                     /\ UNCHANGED <<calls, attempts, loopBusy>>
                ELSE \E t \in TranscribeOutcomes :
                     IF t = "hang"
                     THEN /\ calls' = [calls EXCEPT
                                         ![m] = Append(@, TranscribeCall(d[p].data, t))]
                          /\ loopBusy' = m
                          /\ pc' = [pc EXCEPT ![m] = "hung"]
                          /\ fs' = d
                          /\ UNCHANGED <<removes, attempts, escaped>>
                     ELSE IF t = "raise"
                     THEN /\ calls' = [calls EXCEPT
                                         ![m] = Append(@, TranscribeCall(d[p].data, t))]
                          /\ fs' = Unlink(d, p)
                          /\ removes' = [removes EXCEPT ![m] = Append(@, Removed(d, p))]
                          /\ reply_text(m, ExceptReply, "reply_final")
                          /\ UNCHANGED <<loopBusy, escaped>>
                     ELSE /\ fs' = Unlink(d, p)
                          /\ removes' = [removes EXCEPT ![m] = Append(@, Removed(d, p))]
                          /\ process_with_gpt(m, Transcript(d[p].data), VoicePrompt,
                                              Append(calls[m], TranscribeCall(d[p].data, t)),
                                              "reply_in_try")
                          /\ UNCHANGED escaped
    /\ UNCHANGED <<config, app, handlers, update, tmp, delivered>>

\* reply_text answers.  Telegram refuses a message without text, so a reply
\* of None always raises.  An exception raised by the reply that
\* process_with_gpt sends for handle_voice is caught by the except block of
\* handle_voice (lines 100-102); every other one leaves the handler.
reply_text_return(m) ==
    /\ loopBusy = 0
    /\ pc[m] \in {"reply_final", "reply_in_try"}
    /\ \E ok \in BOOLEAN :
        /\ Last(attempts[m]) = NoneReply => ~ok
        /\ IF ok
           THEN /\ delivered' = [delivered EXCEPT ![m] = Append(@, Last(attempts[m]))]
                /\ pc' = [pc EXCEPT ![m] = "done"]
                /\ UNCHANGED <<attempts, fs, removes, faults, escaped>>
           ELSE /\ faults' = [faults EXCEPT
                                ![m] = IF Last(attempts[m]) = NoneReply
                                       THEN @ ELSE @ \cup {"reply_text"}]
                /\ UNCHANGED delivered
                /\ IF pc[m] = "reply_final"
                   THEN /\ escaped' = [escaped EXCEPT ![m] = "reply_text"]
                        /\ pc' = [pc EXCEPT ![m] = "raised"]
                        /\ UNCHANGED <<attempts, fs, removes>>
                   ELSE /\ removes' = [removes EXCEPT
                                         ![m] = Append(@, Removed(fs, audio_path[m]))]
                        /\ IF fs[audio_path[m]].exists
                           THEN /\ fs' = Unlink(fs, audio_path[m])
                                /\ reply_text(m, ExceptReply, "reply_final")
                                /\ UNCHANGED escaped
                           ELSE /\ escaped' = [escaped EXCEPT ![m] = "os.remove"]
                                /\ pc' = [pc EXCEPT ![m] = "raised"]
                                /\ UNCHANGED <<attempts, fs>>
    /\ UNCHANGED <<config, app, handlers, loopBusy, update, tmp, audio_path,
                   calls>>

\* ------------------------------------------------------------------- spec
Next ==
    \/ main
    \/ \E m \in Msgs : start(m)
    \/ \E m \in Msgs : handle_text(m)
    \/ \E m \in Msgs : handle_voice(m)
    \/ \E m \in Msgs : get_file_return(m)
    \/ \E m \in Msgs : download_return(m)
    \/ \E m \in Msgs : reply_text_return(m)

Spec == Init /\ [][Next]_vars

\* Startup alone, over every configuration of RawStrings: the module is
\* imported and main runs.
InitConfig ==
    /\ BOT_TOKEN \in Credentials
    /\ OPENAI_API_KEY \in Credentials
    /\ raw_ids \in RawStrings
    /\ AUTHORIZED_CHAT_IDS = ParseIds(raw_ids)
    /\ app = "loaded"
    /\ handlers = {}
    /\ loopBusy = 0
    /\ fs = [p \in Paths |-> Absent]
    /\ pc = [m \in Msgs |-> "idle"]
    /\ kind = [m \in Msgs |-> "none"]
    /\ chat_id = [m \in Msgs |-> 0]
    /\ text = [m \in Msgs |-> <<>>]
    /\ tmp = [m \in Msgs |-> 0]
    /\ audio_path = [m \in Msgs |-> 0]
    /\ calls = [m \in Msgs |-> <<>>]
    /\ removes = [m \in Msgs |-> <<>>]
    /\ attempts = [m \in Msgs |-> <<>>]
    /\ delivered = [m \in Msgs |-> <<>>]
    /\ faults = [m \in Msgs |-> {}]
    /\ escaped = [m \in Msgs |-> "none"]

NextConfig == main

SpecConfig == InitConfig /\ [][NextConfig]_vars

\* ----------------------------------------------------------- vocabulary
\* the identities of the configured allow-list
AllowList == {AUTHORIZED_CHAT_IDS[i] : i \in 1..Len(AUTHORIZED_CHAT_IDS)}

Handled(m) == pc[m] # "idle"
Ended(m) == pc[m] \in {"done", "raised"}
AuthorizedMsg(m) == Handled(m) /\ chat_id[m] \in AllowList
UnauthorizedMsg(m) == Handled(m) /\ chat_id[m] \notin AllowList

Apis(m) == [i \in 1..Len(calls[m]) |-> calls[m][i].api]
TranscribeCalls(m) == {i \in 1..Len(calls[m]) : calls[m][i].api = "audio.transcriptions"}
RewriteCalls(m) == {i \in 1..Len(calls[m]) : calls[m][i].api = "chat.completions"}

\* the texts of Texts that are a keyword once trimmed and lowercased, and
\* the ones that are not
HelpTexts == { <<"h", "e", "l", "p">>, <<" ", "H", "e", "l", "p", "\n">> }
WriteTexts == { <<"W", "R", "I", "T", "E">> }
RecordTexts == { <<"R", "e", "c", "o", "r", "d", " ">> }
FreeTexts == { <<"h", "e", "l", "p", " ", "m", "e">>, <<" ", "H", "i">> }

FreeTextMsg(m) == AuthorizedMsg(m) /\ kind[m] = "text" /\ text[m] \in FreeTexts
VoiceMsg(m) == AuthorizedMsg(m) /\ kind[m] = "voice"

TranscriptionFailed(m) ==
    \E i \in TranscribeCalls(m) : calls[m][i].outcome = "raise"
TranscriptionSucceeded(m) ==
    \E i \in TranscribeCalls(m) : calls[m][i].outcome = "ok"
RewriteFailed(m) ==
    \E i \in RewriteCalls(m) :
        calls[m][i].outcome \in {"raise", "no_choices", "no_content"}

\* ------------------------------------------------------------------ C1
\* C1: a caller that is not in the allow-list gets the rejection message from
\* start, handle_text and handle_voice alike, whatever the payload: the only
\* reply the handler sends is the rejection, it is what the caller holds once
\* the handler has returned, and no transcription or rewrite call is made.
C1_UnauthorizedRejected ==
    \A m \in Msgs :
        UnauthorizedMsg(m) =>
            /\ calls[m] = <<>>
            /\ attempts[m] = <<Rejection>>
            /\ pc[m] \in {"reply_final", "done", "raised"}
            /\ pc[m] = "done" => delivered[m] = <<Rejection>>

\* an unauthorized voice message and an unauthorized text message, both
\* answered
C1_Witness ==
    \E m, n \in Msgs :
        /\ UnauthorizedMsg(m) /\ kind[m] = "voice" /\ pc[m] = "done"
        /\ UnauthorizedMsg(n) /\ kind[n] = "text" /\ pc[n] = "done"
        /\ text[n] \in FreeTexts
        /\ delivered[m] = <<Rejection>> /\ delivered[n] = <<Rejection>>

\* ------------------------------------------------------------------ C2
\* C2: a handle_voice that created its temporary file removes it exactly
\* once: it never calls os.remove a second time, and never on a file that is
\* no longer there, whichever later step fails.
C2_RemovedExactlyOnce ==
    \A m \in Msgs :
        /\ Len(removes[m]) <= 1
        /\ \A i \in 1..Len(removes[m]) : removes[m][i].result = "ok"
        /\ (Ended(m) /\ audio_path[m] # 0) => Len(removes[m]) = 1

\* ------------------------------------------------------------------ C3
\* C3: when handle_voice has ended, normally or by an exception, no temporary
\* file it created exists any more.
C3_NoFileLeftBehind ==
    \A m \in Msgs :
        Ended(m) => \A p \in Paths : ~(fs[p].exists /\ fs[p].owner = m)

\* ------------------------------------------------------------------ C4
\* C4: when the transcription call fails, no rewrite call is made for the
\* message and the transcription-failure message is the reply: the only one
\* sent, and the one the caller holds once the handler has returned.
C4_TranscriptionFailure ==
    \A m \in Msgs :
        TranscriptionFailed(m) =>
            /\ RewriteCalls(m) = {}
            /\ attempts[m] = <<TranscribeError>>
            /\ pc[m] = "done" => delivered[m] = <<TranscribeError>>

C4_Witness ==
    \E m \in Msgs :
        /\ VoiceMsg(m) /\ TranscriptionFailed(m) /\ pc[m] = "done"
        /\ delivered[m] = <<TranscribeError>>

\* ------------------------------------------------------------------ C5
\* C5: when the rewrite backend fails (it raises, or answers without choices
\* or without text content) and the transport sends what it is given, the
\* caller receives the processing-failure message and no exception leaves
\* handle_text or handle_voice.
C5_RewriteFailureHandled ==
    \A m \in Msgs :
        (Ended(m) /\ RewriteFailed(m) /\ "reply_text" \notin faults[m]) =>
            /\ delivered[m] = <<ProcessError>>
            /\ escaped[m] = "none"

\* ------------------------------------------------------------------ C6
\* C6: when get_file or the download fails for an authorized voice message,
\* the failure is caught: no exception leaves handle_voice and a failure
\* notice is sent to the caller.
C6_IngestionFailureHandled ==
    \A m \in Msgs :
        (VoiceMsg(m) /\ Ended(m) /\ faults[m] \cap {"get_file", "download"} # {}) =>
            /\ escaped[m] = "none"
            /\ attempts[m] # <<>>

C9_KeywordDispatch ==
    \A m \in Msgs :
        (AuthorizedMsg(m) /\ kind[m] = "text") =>
            /\ text[m] \in HelpTexts =>
                   attempts[m] = <<HelpReply>> /\ calls[m] = <<>>
            /\ text[m] \in WriteTexts =>
                   attempts[m] = <<WriteReply>> /\ calls[m] = <<>>
            /\ text[m] \in RecordTexts =>
                   attempts[m] = <<RecordReply>> /\ calls[m] = <<>>
            /\ text[m] \in FreeTexts =>
                   /\ Apis(m) = <<"chat.completions">>
                   /\ \A i \in 1..Len(attempts[m]) :
                          attempts[m][i] \notin {HelpReply, WriteReply, RecordReply}

\* " Help\n" answered with the help prompt and "help me" sent to the backend
C9_Witness ==
    \E m, n \in Msgs :
        /\ AuthorizedMsg(m) /\ kind[m] = "text" /\ pc[m] = "done"
        /\ text[m] = <<" ", "H", "e", "l", "p", "\n">>
        /\ delivered[m] = <<HelpReply>>
        /\ AuthorizedMsg(n) /\ kind[n] = "text" /\ pc[n] = "done"
        /\ text[n] = <<"h", "e", "l", "p", " ", "m", "e">>
        /\ Len(calls[n]) = 1

\* ----------------------------------------------------------------- C10
\* C10 as stated: every authorized voice message makes exactly one
\* transcription call and then exactly one rewrite call.
C10_Original ==
    \A m \in Msgs :
        (VoiceMsg(m) /\ Ended(m)) =>
            Apis(m) = <<"audio.transcriptions", "chat.completions">>

\* C10 amended: a voice message makes at most one transcription call and at
\* most one rewrite call; the rewrite call is made exactly when the
\* transcription succeeded, and after it; no backend call is repeated.
C10_CallOrder ==
    \A m \in Msgs :
        kind[m] = "voice" =>
            /\ \/ Apis(m) = <<>>
               \/ Apis(m) = <<"audio.transcriptions">>
               \/ Apis(m) = <<"audio.transcriptions", "chat.completions">>
            /\ Len(calls[m]) = 2 <=> TranscriptionSucceeded(m)

C10_Witness ==
    \E m \in Msgs :
        /\ VoiceMsg(m) /\ pc[m] = "done"
        /\ Apis(m) = <<"audio.transcriptions", "chat.completions">>
        /\ calls[m][2].outcome = "raise"
        /\ delivered[m] = <<ProcessError>>

\* ----------------------------------------------------------------- C11
\* the comma-separated entries of a configuration value, read off the
\* positions of its commas
Cuts(raw) == {0, Len(raw) + 1} \cup {i \in 1..Len(raw) : raw[i] = ","}
Entries(raw) ==
    { SubSeq(raw, a + 1, b - 1) :
        <<a, b>> \in { <<a, b>> \in Cuts(raw) \X Cuts(raw) :
                         a < b /\ ~\E k \in Cuts(raw) : a < k /\ k < b } }
NumericEntries(raw) == {e \in Entries(raw) : IsDigit(Strip(e))}
BadEntries(raw) ==
    {e \in Entries(raw) : Strip(e) # <<>> /\ ~IsDigit(Strip(e))}
ExpectedAllow(raw) == {DecVal(Strip(e)) : e \in NumericEntries(raw)}

\* the identities is_authorized is asked about
Identities == 0..450

ExpectedContent(t) ==
    IF t = <<" ", "H", "i">> THEN <<"h", "i">> ELSE <<"h", "e", "l", "p", " ", "m", "e">>

\* C12: for an authorized free text the user content of the rewrite call is
\* the message text trimmed and lowercased, and when the call succeeds the
\* reply sent, and received, is exactly the text the backend returned.
C12_FreeTextContent ==
    \A m \in Msgs :
        FreeTextMsg(m) =>
            /\ Len(calls[m]) = 1
            /\ calls[m][1].user = ExpectedContent(text[m])
            /\ calls[m][1].outcome = "ok" =>
                   /\ calls[m][1].returned \in BackendTexts
                   /\ attempts[m] = <<calls[m][1].returned>>
                   /\ pc[m] = "done" => delivered[m] = <<calls[m][1].returned>>

C12_Witness ==
    \E m \in Msgs :
        /\ FreeTextMsg(m) /\ pc[m] = "done"
        /\ text[m] = <<" ", "H", "i">>
        /\ calls[m][1].user = <<"h", "i">>
        /\ calls[m][1].outcome = "ok"
        /\ delivered[m] = <<"generated text">>

\* ----------------------------------------------------------------- C13
ConfigComplete ==
    BOT_TOKEN # "" /\ OPENAI_API_KEY # "" /\ AUTHORIZED_CHAT_IDS # <<>>

\* C13: main registers the handlers and polls only when the bot credential,
\* the API credential and the parsed allow-list are all non-empty; when one
\* of them is empty it returns with no handler registered, and no message is
\* ever handled.
C13_StartupGate ==
    /\ app = "polling" =>
           ConfigComplete /\ handlers = {"start", "handle_text", "handle_voice"}
    /\ app = "exited" => ~ConfigComplete
    /\ ~ConfigComplete =>
           /\ app \in {"loaded", "exited"}
           /\ handlers = {}
           /\ \A m \in Msgs : pc[m] = "idle" /\ attempts[m] = <<>> /\ calls[m] = <<>>
    /\ (\E m \in Msgs : Handled(m)) => app = "polling"

\* main has returned early: both credentials set, no numeric entry in the
\* allow-list
C13_Witness ==
    /\ app = "exited"
    /\ BOT_TOKEN = "secret" /\ OPENAI_API_KEY = "secret"
    /\ raw_ids = <<"a", "b", "c">>
    /\ AUTHORIZED_CHAT_IDS = <<>>
    /\ handlers = {}

\* ----------------------------------------------------------------- C14
\* C14: once handle_voice has issued the rewrite call, which it does only
\* after a successful transcription, the temporary file is gone: os.remove
\* has been called on audio_path and has removed a file, and no file the
\* handler created exists while the call is in progress or afterwards.
C14_RemovedBeforeRewrite ==
    \A m \in Msgs :
        (kind[m] = "voice" /\ RewriteCalls(m) # {}) =>
            /\ removes[m] # <<>>
            /\ removes[m][1].path = audio_path[m]
            /\ removes[m][1].result = "ok"
            /\ \A p \in Paths : ~(fs[p].exists /\ fs[p].owner = m)

\* a rewrite call that does not return, with the file already removed
C14_Witness ==
    \E m \in Msgs :
        /\ VoiceMsg(m) /\ pc[m] = "hung" /\ loopBusy = m
        /\ Apis(m) = <<"audio.transcriptions", "chat.completions">>
        /\ calls[m][2].outcome = "hang"
        /\ Len(removes[m]) = 1 /\ removes[m][1].owner = m
        /\ ~fs[audio_path[m]].exists

\* ----------------------------------------------------------------- C15
\* a step of the handler of m
StepOf(m) ==
    \/ start(m)
    \/ handle_text(m)
    \/ handle_voice(m)
    \/ get_file_return(m)
    \/ download_return(m)
    \/ reply_text_return(m)

\* the handler of m is under way, waiting for the transport
InFlight(m) == pc[m] \in {"get_file", "download", "reply_final", "reply_in_try"}

\* C15: a backend call that never returns stalls only the handler that made
\* it: while that handler waits, every other handler under way can still
\* take its next step.
C15_HangIsolated ==
    \A n \in Msgs :
        pc[n] = "hung" =>
            \A m \in Msgs \ {n} : InFlight(m) => ENABLED StepOf(m)

C18_NoIngestionUnauthorized ==
    \A m \in Msgs :
        (UnauthorizedMsg(m) /\ kind[m] = "voice") =>
            /\ pc[m] \in {"reply_final", "done", "raised"}
            /\ tmp[m] = 0 /\ audio_path[m] = 0
            /\ \A p \in Paths : fs[p].owner # m
            /\ removes[m] = <<>>
            /\ faults[m] \subseteq {"reply_text"}
            /\ escaped[m] \in {"none", "reply_text"}

\* an unauthorized voice message, rejected while an authorized one has its
\* temporary file on disk
C18_Witness ==
    \E m, n \in Msgs :
        /\ UnauthorizedMsg(m) /\ kind[m] = "voice" /\ pc[m] = "done"
        /\ delivered[m] = <<Rejection>> /\ tmp[m] = 0
        /\ VoiceMsg(n) /\ pc[n] = "download"
        /\ fs[tmp[n]].exists /\ fs[tmp[n]].owner = n

====
